---- MODULE Spec2Model ----
(***************************************************************************)
(* Model of the manga reader session of src/components/Reader.tsx together *)
(* with the two remote helpers of src/utils/ocr.ts.                        *)
(*                                                                         *)
(* The reader is single threaded: every event handler, effect and await    *)
(* continuation runs to completion, so each of them is one action.  React  *)
(* state updaters are applied in the order in which they were queued, and  *)
(* the effects of the render that follows a handler are part of the action *)
(* of that handler.                                                        *)
(***************************************************************************)
EXTENDS Integers, Sequences, FiniteSets, TLC

\* ------------------------------------------------------------------ bounds
\* manga.pages.length of the session that is explored
NumPages == 5
\* how many entries more than requested a backend answer may hold
MaxExtraResults == 1
\* cap on the analyzeBatch invocations suspended at once for one batch
MaxVisionInFlight == 2
\* cap on the performBatchedOCR calls issued in one session
MaxOcrRequests == 3
\* caps on the speech queue and on the invocations waiting for the voice list
MaxQueue == 3
MaxWaiters == 2
\* the last page that is visited where narration is explored
MaxNarrationPage == 1

\* --------------------------------------------------------------- constants
BATCH_SIZE == 4
\* width of a stacked-OCR request (the literal 3 of requestOCRForPage)
OCR_PAGES == 3

Pages == 0..(NumPages - 1)
\* keys a cache object can receive in the explored runs
Keys == 0..(NumPages - 1 + MaxExtraResults)
Batches == 0..((NumPages - 1) \div BATCH_SIZE)
NoTimer == -1

Min(a, b) == IF a < b THEN a ELSE b
Max(a, b) == IF a > b THEN a ELSE b
Abs(a) == IF a < 0 THEN -a ELSE a

\* Math.floor(currentIndex / BATCH_SIZE)
BatchOf(i) == i \div BATCH_SIZE
\* startPage .. endPage - 1 of preloadBatch and analyzeBatch
StartPage(b) == b * BATCH_SIZE
EndPage(b) == Min(StartPage(b) + BATCH_SIZE, NumPages)
BatchRange(b) == StartPage(b)..(EndPage(b) - 1)

\* ----------------------------------------------------------------- bubbles
Bubble(t, ymin, xmin) == [text |-> t, box_2d |-> <<ymin, xmin, ymin + 40, xmin + 40>>]
BubbleA == Bubble("a", 10, 300)
BubbleB == Bubble("b", 15, 100)

\* the comparator handed to bubbles.sort
CompareBubbles(a, b) ==
    LET yDiff == a.box_2d[1] - b.box_2d[1]
    IN  IF Abs(yDiff) > 50 THEN yDiff ELSE b.box_2d[2] - a.box_2d[2]

RECURSIVE InsertBubble(_, _)
InsertBubble(sorted, x) ==
    IF sorted = <<>> THEN <<x>>
    ELSE IF CompareBubbles(sorted[Len(sorted)], x) > 0
         THEN Append(InsertBubble(SubSeq(sorted, 1, Len(sorted) - 1), x), sorted[Len(sorted)])
         ELSE Append(sorted, x)

RECURSIVE SortBubblesFrom(_, _)
SortBubblesFrom(sorted, rest) ==
    IF rest = <<>> THEN sorted
    ELSE SortBubblesFrom(InsertBubble(sorted, Head(rest)), Tail(rest))

\* Array.prototype.sort (stable) with CompareBubbles
SortBubbles(bubbles) == SortBubblesFrom(<<>>, bubbles)

\* ------------------------------------------------------- analysis entries
Absent == [status |-> "absent", bubbles |-> <<>>]
Entry(st, bs) == [status |-> st, bubbles |-> bs]

\* --------------------------------------------- bubble detection (ocr.ts)
\* one element of the parsed JSON array: null, an object without a bubbles
\* field, or an object with a bubble list
NullResult == [isNull |-> TRUE, bubbles |-> <<>>]
BareResult == [isNull |-> FALSE, bubbles |-> <<>>]
BubbleResult == [isNull |-> FALSE, bubbles |-> <<BubbleB, BubbleA>>]

\* the parsed arrays that are explored: of every length, with bubbles on
\* every other page, and one array that holds a null
ParsedArrays(n) ==
    {[i \in 1..len |-> IF i % 2 = 1 THEN BubbleResult ELSE BareResult] :
        len \in 0..(n + MaxExtraResults)}
    \cup {<<BubbleResult, NullResult>>}

\* what generateContent can do for a request of n images: it throws, answers
\* without text, with text that is no JSON, with JSON that is no array, or
\* with an array
VisionResponses(n) ==
    {[kind |-> k, parsed |-> <<>>] : k \in {"throw", "notext", "invalid", "nonarray"}}
    \cup {[kind |-> "array", parsed |-> p] : p \in ParsedArrays(n)}

EmptyResults(n) == [i \in 1..n |-> <<>>]

\* analyzeMangaPages: never throws, returns one bubble list per parsed entry
analyzeMangaPages(n, resp) ==
    IF resp.kind # "array" THEN EmptyResults(n)
    ELSE IF \E i \in 1..Len(resp.parsed) : resp.parsed[i].isNull THEN EmptyResults(n)
    ELSE [i \in 1..Len(resp.parsed) |-> resp.parsed[i].bubbles]


\* ---------------------------------------------- stacked OCR (ocr.ts)
\* a key that ocrTextCache does not hold reads as undefined
NoText == "undefined"
\* JavaScript truthiness of a cache read
Truthy(t) == t # NoText /\ t # ""
\* cachedText.trim()
Trim(t) == IF t = " " THEN "" ELSE t

\* the parsed arrays that are explored: of every length, texts and empty
\* strings alternating, starting with either, and one array of blank texts
OcrArrays(n) ==
    {[i \in 1..len |-> IF (i + k) % 2 = 0 THEN "Hello" ELSE ""] :
        len \in 0..(n + MaxExtraResults), k \in {0, 1}}
    \cup {[i \in 1..n |-> " "]}

\* what mergeImagesToBase64 and generateContent can do for n stacked pages
OcrResponses(n) ==
    {[kind |-> k, parsed |-> <<>>] :
        k \in {"mergeFailed", "throw", "notext", "invalid", "nonarray"}}
    \cup {[kind |-> "array", parsed |-> p] : p \in OcrArrays(n)}

\* performBatchedOCR: the error message when it throws, "" otherwise
OcrError(resp) ==
    CASE resp.kind = "mergeFailed" -> "Failed to load image"
      [] resp.kind = "throw" -> "backend error"
      [] resp.kind = "invalid" -> "JSON parse failed"
      [] OTHER -> ""

\* performBatchedOCR: the texts it returns, one per requested page
performBatchedOCR(n, resp) ==
    IF resp.kind = "array"
    THEN [i \in 1..n |-> IF i <= Len(resp.parsed) /\ Truthy(resp.parsed[i])
                         THEN resp.parsed[i] ELSE ""]
    ELSE [i \in 1..n |-> ""]

\* batchStart .. batchEnd - 1 of requestOCRForPage
OcrEnd(s) == Min(s + OCR_PAGES, NumPages)
OcrRange(s) == s..(OcrEnd(s) - 1)
\* manga.pages.slice(batchStart, batchStart + 3).length
OcrUrls(s) == Cardinality({p \in Pages : p >= s /\ p < s + OCR_PAGES})

\* the ocrTextCache that the memoized requestOCRForPage closes over: its
\* dependency list is [manga.pages], so it keeps the cache of the first render
closureOcrTextCache == [k \in Keys |-> NoText]

\* the allCached loop of requestOCRForPage
AllCached(cache, s) == \A i \in OcrRange(s) : Truthy(cache[i])

\* an updater that leaves the key of an empty text absent
StoreTexts_SkipEmpty(cache, s, texts) ==
    [k \in Keys |->
        IF k >= s /\ k - s < Len(texts) /\ Truthy(texts[k - s + 1])
        THEN texts[k - s + 1]
        ELSE cache[k]]

\* the updater of setOcrTextCache
StoreTexts(cache, s, texts) ==
    [k \in Keys |->
        IF k >= s /\ k - s < Len(texts)
        THEN (IF Truthy(texts[k - s + 1]) THEN texts[k - s + 1] ELSE "")
        ELSE cache[k]]

\* --------------------------------------------------------------- narration
NoPage == -1
NoBubble == -1

Utterance(kind, page, index, last, text) ==
    [kind |-> kind, page |-> page, index |-> index, last |-> last, text |-> text]
\* new SpeechSynthesisUtterance('') with volume 0
UnlockUtterance == Utterance("unlock", NoPage, NoBubble, FALSE, "")
TextUtterances(page, text) == <<Utterance("text", page, NoBubble, TRUE, text)>>
BubbleUtterances(page, bubbles) ==
    [i \in 1..Len(bubbles) |->
        Utterance("bubble", page, i - 1, i = Len(bubbles), bubbles[i].text)]

\* synth.cancel(): the queue is emptied
Cancel(S) == [S EXCEPT !.queue = <<>>, !.started = FALSE]
\* synth.speaking: an utterance has started and not ended
Speaking(S) == S.queue # <<>> /\ S.started

\* both branches of speakCurrentPage from the lastSpoken check on: cancel,
\* remember the page, then speak at once or after the wait for the voices
Narrate(S, page, utterances, voices) ==
    IF S.last = page /\ Speaking(S) THEN S
    ELSE LET S1 == IF S.last # page THEN [Cancel(S) EXCEPT !.active = NoBubble] ELSE S
             S2 == [Cancel(S1) EXCEPT !.last = page]
         IN  IF voices THEN [S2 EXCEPT !.queue = @ \o utterances]
             ELSE [S2 EXCEPT !.waiters = Append(@, utterances)]

\* speakCurrentPage that tries the bubbles before the cached text
speakCurrentPage_BubblesFirst(S, page, text, entry, enabled, voices) ==
    IF ~enabled THEN S
    ELSE IF entry.status = "complete" /\ entry.bubbles # <<>>
         THEN Narrate(S, page, BubbleUtterances(page, entry.bubbles), voices)
    ELSE IF Truthy(text) /\ Trim(text) # "" THEN Narrate(S, page, TextUtterances(page, text), voices)
    ELSE S

\* speakCurrentPage for the rendered state it closes over
speakCurrentPage(S, page, text, entry, enabled, voices) ==
    IF ~enabled THEN S
    ELSE IF Truthy(text) /\ Trim(text) # "" THEN Narrate(S, page, TextUtterances(page, text), voices)
    ELSE IF entry.status # "complete" THEN S
    ELSE IF entry.bubbles = <<>> THEN S
    ELSE Narrate(S, page, BubbleUtterances(page, entry.bubbles), voices)

\* the effect of lines 259-265
DisableEffect(S, enabled) ==
    IF enabled THEN S
    ELSE [Cancel(S) EXCEPT !.active = NoBubble, !.last = NoPage]

\* a finally block that keeps its key
DeleteKey_Leak(set, key) == set

\* the finally blocks: processingQueue.delete(batchIndex), pendingOCRBatches.delete(index)
DeleteKey(set, key) == set \ {key}

VARIABLES
    currentIndex,       \* useState currentIndex
    analysisCache,      \* useState analysisCache: key -> entry (Absent: no key)
    ocrTextCache,       \* useState ocrTextCache: key -> text (NoText: no key)
    debugError,         \* useState debugError ("null" when empty)
    isAnalysisEnabled,  \* useState isAnalysisEnabled
    ttsEnabled,         \* useState ttsEnabled
    processingQueue,    \* useRef Set of batch indices
    pendingOCRBatches,  \* useRef Set of start pages
    preloadedImages,    \* useRef registry: pages with a decoded image
    brokenImages,       \* pages whose image fires onerror instead of onload
    preloadPending,     \* batch -> pages whose Image of preloadBatch is loading
    lookaheadPending,   \* pages whose Image of the lookahead effect is loading
    timer,              \* batch of the pending setTimeout(preloadBatch), or NoTimer
    analyzeFetching,    \* batch -> analyzeBatch invocations awaiting blobUrlToBase64
    analyzeRemote,      \* batch -> analyzeBatch invocations awaiting analyzeMangaPages
    ocrIssued,          \* performBatchedOCR calls issued so far
    ocrCalls,           \* start page -> requestOCRForPage invocations awaiting performBatchedOCR
    synthQueue,         \* utterance queue of window.speechSynthesis
    synthStarted,       \* the head utterance has fired its start event
    lastSpokenPageIndexRef, \* useRef (NoPage when null)
    activeBubbleIndex,  \* useState activeBubbleIndex (NoBubble when null)
    voicesLoaded,       \* getVoices() is non-empty
    voiceWaiters,       \* speakCurrentPage invocations suspended in the wait for the voices
    lastEvent           \* the handler that ran last and what it did

navVars == <<currentIndex, timer>>
imageVars == <<preloadedImages, brokenImages, preloadPending, lookaheadPending>>
visionVars == <<analysisCache, isAnalysisEnabled, processingQueue, analyzeFetching, analyzeRemote>>
ocrVars == <<ocrTextCache, debugError, pendingOCRBatches, ocrCalls, ocrIssued>>
narrVars == <<ttsEnabled, synthQueue, synthStarted, lastSpokenPageIndexRef,
              activeBubbleIndex, voicesLoaded, voiceWaiters>>
vars == <<navVars, imageVars, visionVars, ocrVars, narrVars, lastEvent>>

Event(op, key, outcome) == [op |-> op, key |-> key, outcome |-> outcome]
\* what lastEvent holds after a handler that no property has to recognise
OtherEvent == Event("other", 0, "")

\* the narration state as one record, and its assignment
Narr ==
    [queue |-> synthQueue, started |-> synthStarted, last |-> lastSpokenPageIndexRef,
     active |-> activeBubbleIndex, waiters |-> voiceWaiters]
SetNarr(S) ==
    /\ Len(S.queue) <= MaxQueue
    /\ Len(S.waiters) <= MaxWaiters
    /\ synthQueue' = S.queue
    /\ synthStarted' = S.started
    /\ lastSpokenPageIndexRef' = S.last
    /\ activeBubbleIndex' = S.active
    /\ voiceWaiters' = S.waiters

\* the effect of lines 347-350 after a render whose state is the primed one,
\* except for the analysis cache, which is given
SpeakWith(S, cache) ==
    speakCurrentPage(S, currentIndex', ocrTextCache'[currentIndex'], cache[currentIndex'],
                     ttsEnabled' /\ isAnalysisEnabled', voicesLoaded)
SpeakEffect(S) == SpeakWith(S, analysisCache')

\* ------------------------------------------------------------ preloadBatch
\* the marking pass of preloadBatch without its check for complete
MarkPreloaded_Unguarded(cache, b) ==
    [k \in Keys |-> IF k \in BatchRange(b) THEN Entry("preloaded", <<>>) ELSE cache[k]]

\* the updater of the marking pass of preloadBatch
MarkPreloaded(cache, b) ==
    [k \in Keys |->
        IF k \in BatchRange(b) /\ cache[k].status # "complete"
        THEN Entry("preloaded", <<>>) ELSE cache[k]]

AllPreloaded(b, images) == \A i \in BatchRange(b) : i \in images

\* preloadBatch without the test of the in-flight set
PreloadSkipped_NoGuard(b, queue, images) == AllPreloaded(b, images)

\* preloadBatch up to its await, as a function of the state it finds:
\* skipped when the key is in flight or every image is already decoded
PreloadSkipped(b, queue, images) == b \in queue \/ AllPreloaded(b, images)

PreloadQueue(b, queue, images) ==
    IF PreloadSkipped(b, queue, images) THEN queue ELSE queue \cup {b}
PreloadCache(b, queue, images, cache) ==
    IF PreloadSkipped(b, queue, images) THEN cache ELSE MarkPreloaded(cache, b)
PreloadLoads(b, queue, images, pending) ==
    IF PreloadSkipped(b, queue, images) THEN pending
    ELSE [pending EXCEPT ![b] = @ \cup (BatchRange(b) \ images)]
PreloadOutcome(b, queue, images) ==
    IF PreloadSkipped(b, queue, images) THEN "skipped" ELSE "preload"

\* the lookahead effect: Image objects for currentIndex+1 .. currentIndex+3
LookaheadTargets(i, images) == {p \in Pages : p > i /\ p <= i + 3 /\ p \notin images}

\* the trigger effect: timer for the next batch when it exists
NextTimer(i) == IF (BatchOf(i) + 1) * BATCH_SIZE < NumPages THEN BatchOf(i) + 1 ELSE NoTimer

\* the images that never decode in the explored session
BrokenChoices == {{}, {NumPages - 1}}

Init ==
    /\ currentIndex = 0
    /\ isAnalysisEnabled = FALSE
    /\ ttsEnabled = FALSE
    /\ preloadedImages = {}
    /\ brokenImages \in BrokenChoices
    /\ processingQueue = PreloadQueue(0, {}, {})
    /\ analysisCache = PreloadCache(0, {}, {}, [k \in Keys |-> Absent])
    /\ preloadPending = PreloadLoads(0, {}, {}, [b \in Batches |-> {}])
    /\ lookaheadPending = LookaheadTargets(0, {})
    /\ timer = NextTimer(0)
    /\ analyzeFetching = [b \in Batches |-> 0]
    /\ analyzeRemote = [b \in Batches |-> 0]
    /\ ocrTextCache = [k \in Keys |-> NoText]
    /\ debugError = "null"
    /\ pendingOCRBatches = {}
    /\ ocrCalls = [p \in Pages |-> 0]
    /\ ocrIssued = 0
    /\ synthQueue = <<>>
    /\ synthStarted = FALSE
    /\ lastSpokenPageIndexRef = NoPage
    /\ activeBubbleIndex = NoBubble
    /\ voicesLoaded \in BOOLEAN
    /\ voiceWaiters = <<>>
    /\ lastEvent = OtherEvent

\* setCurrentIndex(j) with j # currentIndex, followed by the effects of the
\* render: clearTimeout, preloadBatch(currentBatch), new timer, lookahead,
\* speakCurrentPage, and speakCurrentPage again after the render that the
\* marking pass of preloadBatch causes
Navigate(j) ==
    LET b == BatchOf(j) IN
    /\ j # currentIndex
    /\ currentIndex' = j
    /\ processingQueue' = PreloadQueue(b, processingQueue, preloadedImages)
    /\ analysisCache' = PreloadCache(b, processingQueue, preloadedImages, analysisCache)
    /\ preloadPending' = PreloadLoads(b, processingQueue, preloadedImages, preloadPending)
    /\ lookaheadPending' = lookaheadPending \cup LookaheadTargets(j, preloadedImages)
    /\ timer' = NextTimer(j)
    /\ lastEvent' = OtherEvent
    /\ UNCHANGED <<isAnalysisEnabled, analyzeFetching, analyzeRemote,
                   preloadedImages, brokenImages, ocrVars, ttsEnabled, voicesLoaded>>
    /\ SetNarr(IF PreloadSkipped(b, processingQueue, preloadedImages)
               THEN SpeakWith(Narr, analysisCache)
               ELSE SpeakEffect(SpeakWith(Narr, analysisCache)))

\* handleNext, handlePrev, the arrow keys and the slider
NavigateAny ==
    \E j \in Pages : Navigate(j)

\* the timer of the trigger effect with a preloadBatch that also starts the
\* analysis of the batch
TimerFires_Analyzes ==
    /\ timer # NoTimer
    /\ timer' = NoTimer
    /\ processingQueue' = PreloadQueue(timer, processingQueue, preloadedImages)
    /\ analysisCache' = PreloadCache(timer, processingQueue, preloadedImages, analysisCache)
    /\ preloadPending' = PreloadLoads(timer, processingQueue, preloadedImages, preloadPending)
    /\ analyzeRemote' = [analyzeRemote EXCEPT ![timer] = 1]
    /\ lastEvent' = OtherEvent
    /\ UNCHANGED <<currentIndex, isAnalysisEnabled, analyzeFetching,
                   preloadedImages, brokenImages, lookaheadPending, ocrVars,
                   ttsEnabled, voicesLoaded>>
    /\ SetNarr(IF PreloadSkipped(timer, processingQueue, preloadedImages)
               THEN Narr ELSE SpeakEffect(Narr))

\* the 500 ms timer of the trigger effect fires: preloadBatch(nextBatch)
TimerFires ==
    /\ timer # NoTimer
    /\ timer' = NoTimer
    /\ processingQueue' = PreloadQueue(timer, processingQueue, preloadedImages)
    /\ analysisCache' = PreloadCache(timer, processingQueue, preloadedImages, analysisCache)
    /\ preloadPending' = PreloadLoads(timer, processingQueue, preloadedImages, preloadPending)
    /\ lastEvent' = OtherEvent
    /\ UNCHANGED <<currentIndex, isAnalysisEnabled, analyzeFetching, analyzeRemote,
                   preloadedImages, brokenImages, lookaheadPending, ocrVars,
                   ttsEnabled, voicesLoaded>>
    /\ SetNarr(IF PreloadSkipped(timer, processingQueue, preloadedImages)
               THEN Narr ELSE SpeakEffect(Narr))

\* img.onload / img.onerror of one Image of preloadBatch(b); when it was the
\* last one, Promise.all resolves and the finally block deletes the key.
\* An Image of the lookahead effect for a page that is registered by now has
\* nothing left to do and is dropped.
PreloadImageSettles(b, i) ==
    /\ i \in preloadPending[b]
    /\ preloadedImages' = IF i \in brokenImages THEN preloadedImages
                          ELSE preloadedImages \cup {i}
    /\ preloadPending' = [preloadPending EXCEPT ![b] = @ \ {i}]
    /\ processingQueue' = IF preloadPending[b] = {i} THEN DeleteKey(processingQueue, b)
                          ELSE processingQueue
    /\ lookaheadPending' = lookaheadPending \ preloadedImages'
    /\ lastEvent' = OtherEvent
    /\ UNCHANGED <<navVars, brokenImages, analysisCache, isAnalysisEnabled,
                   analyzeFetching, analyzeRemote, ocrVars, narrVars>>

PreloadImageEvent ==
    \E b \in Batches, i \in Pages : PreloadImageSettles(b, i)

\* img.onload / img.onerror of one Image of the lookahead effect
LookaheadImageSettles(i) ==
    /\ i \in lookaheadPending
    /\ preloadedImages' = IF i \in brokenImages THEN preloadedImages
                          ELSE preloadedImages \cup {i}
    /\ lookaheadPending' = (lookaheadPending \ {i}) \ preloadedImages'
    /\ lastEvent' = OtherEvent
    /\ UNCHANGED <<navVars, brokenImages, preloadPending, visionVars, ocrVars, narrVars>>

LookaheadImageEvent ==
    \E i \in Pages : LookaheadImageSettles(i)

\* ------------------------------------------------------------ analyzeBatch
\* analyzeBatch without its guard
AnalyzeSkipped_NoGuard(b, queue) == FALSE

\* the guard at the top of analyzeBatch
AnalyzeSkipped(b, queue) == b \in queue

\* the updater of the batch-start marking pass
MarkLoading(cache, b) ==
    [k \in Keys |->
        IF k \in BatchRange(b) /\ cache[k].status # "complete"
        THEN Entry("loading", <<>>) ELSE cache[k]]

\* the updater of the success path: one entry per returned result
ApplyResults(cache, b, results) ==
    [k \in Keys |->
        IF k >= StartPage(b) /\ k - StartPage(b) < Len(results)
        THEN Entry("complete", SortBubbles(results[k - StartPage(b) + 1]))
        ELSE cache[k]]

\* the updater of the catch path
MarkError(cache, b) ==
    [k \in Keys |-> IF k \in BatchRange(b) THEN Entry("error", <<>>) ELSE cache[k]]

\* the analyze button: setIsAnalysisEnabled(true); analyzeBatch(batch); then
\* the effects of the render (lines 259-265 when the flag changed, and
\* speakCurrentPage); a click that changes no state causes no render
AnalyzeClick ==
    LET b == BatchOf(currentIndex) IN
    /\ analyzeFetching[b] + analyzeRemote[b] < MaxVisionInFlight
    /\ isAnalysisEnabled' = TRUE
    /\ IF AnalyzeSkipped(b, processingQueue)
       THEN /\ lastEvent' = Event("analyzeBatch", b, "skipped")
            /\ UNCHANGED <<processingQueue, analysisCache, analyzeFetching>>
       ELSE /\ processingQueue' = processingQueue \cup {b}
            /\ analysisCache' = MarkLoading(analysisCache, b)
            /\ analyzeFetching' = [analyzeFetching EXCEPT ![b] = @ + 1]
            /\ lastEvent' = OtherEvent
    /\ UNCHANGED <<navVars, imageVars, analyzeRemote, ocrVars, ttsEnabled, voicesLoaded>>
    /\ SetNarr(IF isAnalysisEnabled /\ AnalyzeSkipped(b, processingQueue) THEN Narr
               ELSE SpeakEffect(IF isAnalysisEnabled THEN Narr
                                ELSE DisableEffect(Narr, ttsEnabled' /\ isAnalysisEnabled')))

\* Promise.all(imagePromises) resolves: analyzeMangaPages issues the request
ImagesFetched(b) ==
    /\ analyzeFetching[b] > 0
    /\ analyzeFetching' = [analyzeFetching EXCEPT ![b] = @ - 1]
    /\ analyzeRemote' = [analyzeRemote EXCEPT ![b] = @ + 1]
    /\ lastEvent' = OtherEvent
    /\ UNCHANGED <<navVars, imageVars, analysisCache, isAnalysisEnabled, processingQueue,
                   ocrVars, narrVars>>

\* a blobUrlToBase64 promise rejects: catch path, then finally
ImagesFetchFailed(b) ==
    /\ analyzeFetching[b] > 0
    /\ analyzeFetching' = [analyzeFetching EXCEPT ![b] = @ - 1]
    /\ analysisCache' = MarkError(analysisCache, b)
    /\ processingQueue' = DeleteKey(processingQueue, b)
    /\ lastEvent' = OtherEvent
    /\ UNCHANGED <<navVars, imageVars, isAnalysisEnabled, analyzeRemote, ocrVars,
                   ttsEnabled, voicesLoaded>>
    /\ SetNarr(SpeakEffect(Narr))

\* analyzeMangaPages resolves: success path, then finally
VisionResponse(b, resp) ==
    /\ analyzeRemote[b] > 0
    /\ analyzeRemote' = [analyzeRemote EXCEPT ![b] = @ - 1]
    /\ analysisCache' = ApplyResults(analysisCache, b,
                            analyzeMangaPages(Cardinality(BatchRange(b)), resp))
    /\ processingQueue' = DeleteKey(processingQueue, b)
    /\ lastEvent' = IF resp.kind = "throw" THEN Event("analyzeBatch", b, "remoteFailed")
                     ELSE OtherEvent
    /\ UNCHANGED <<navVars, imageVars, isAnalysisEnabled, analyzeFetching, ocrVars,
                   ttsEnabled, voicesLoaded>>
    /\ SetNarr(SpeakEffect(Narr))

ImagesFetchedEvent == \E b \in Batches : ImagesFetched(b)
ImagesFetchFailedEvent == \E b \in Batches : ImagesFetchFailed(b)
VisionResponseEvent ==
    \E b \in Batches : \E resp \in VisionResponses(Cardinality(BatchRange(b))) :
        VisionResponse(b, resp)

\* ------------------------------------------------------- requestOCRForPage
\* requestOCRForPage with one in-flight set for both domains
OcrOutcome_SharedSet(s, pending) ==
    IF AllCached(closureOcrTextCache, s) THEN "cached"
    ELSE IF s \in pending \cup processingQueue THEN "pending"
    ELSE IF OcrUrls(s) = 0 THEN "nopages"
    ELSE "requested"

\* what the invocation does before its await, given the pending set it finds
OcrOutcome(s, pending) ==
    IF AllCached(closureOcrTextCache, s) THEN "cached"
    ELSE IF s \in pending THEN "pending"
    ELSE IF OcrUrls(s) = 0 THEN "nopages"
    ELSE "requested"

\* the pending set after the synchronous part: the key is added when the
\* request goes out, and the finally block deletes it on every return
OcrPendingAfter(s, pending) ==
    IF OcrOutcome(s, pending) = "requested" THEN pending \cup {s} ELSE DeleteKey(pending, s)

\* the OCR button (enabled while the text of the current page is falsy):
\* requestOCRForPage(currentIndex) up to its await
RequestOCRClick ==
    LET s == currentIndex
        outcome == OcrOutcome(s, pendingOCRBatches) IN
    /\ ~Truthy(ocrTextCache[s])
    /\ outcome = "requested" => ocrIssued < MaxOcrRequests
    /\ ocrIssued' = IF outcome = "requested" THEN ocrIssued + 1 ELSE ocrIssued
    /\ debugError' = "null"
    /\ pendingOCRBatches' = OcrPendingAfter(s, pendingOCRBatches)
    /\ ocrCalls' = IF outcome = "requested" THEN [ocrCalls EXCEPT ![s] = @ + 1] ELSE ocrCalls
    /\ lastEvent' = Event("requestOCRForPage", s, outcome)
    /\ UNCHANGED <<navVars, imageVars, visionVars, ocrTextCache, ttsEnabled, voicesLoaded>>
    /\ SetNarr(IF outcome = "cached" THEN Narr
               ELSE [Narr EXCEPT !.queue = Append(@, UnlockUtterance)])

\* performBatchedOCR settles for a request that started at page s: the texts
\* are stored or the error is shown, then the finally block deletes the key;
\* outcome is what the step is recorded as
OcrSettles(s, resp, outcome) ==
    /\ ocrCalls[s] > 0
    /\ ocrCalls' = [ocrCalls EXCEPT ![s] = @ - 1]
    /\ pendingOCRBatches' = DeleteKey(pendingOCRBatches, s)
    /\ IF OcrError(resp) = ""
       THEN /\ ocrTextCache' = StoreTexts(ocrTextCache, s, performBatchedOCR(OcrUrls(s), resp))
            /\ UNCHANGED debugError
       ELSE /\ debugError' = OcrError(resp)
            /\ UNCHANGED ocrTextCache
    /\ lastEvent' = Event("performBatchedOCR", s, outcome)
    /\ UNCHANGED <<navVars, imageVars, visionVars, ttsEnabled, voicesLoaded, ocrIssued>>
    /\ SetNarr(IF OcrError(resp) = "" THEN SpeakEffect(Narr) ELSE Narr)

OcrResponse(s, resp) == OcrSettles(s, resp, resp.kind)

OcrResponseEvent ==
    \E s \in Pages : \E resp \in OcrResponses(OcrUrls(s)) : OcrResponse(s, resp)

\* the dismiss button of the error box
DismissError ==
    /\ debugError # "null"
    /\ debugError' = "null"
    /\ lastEvent' = OtherEvent
    /\ UNCHANGED <<navVars, imageVars, visionVars, ocrTextCache, pendingOCRBatches, ocrCalls, ocrIssued,
                   narrVars>>

\* ------------------------------------------------------------- narration
\* the audio pill (rendered once analysis is enabled): setTtsEnabled(!ttsEnabled),
\* then the unlock effect, the effect of lines 259-265 and speakCurrentPage
ToggleTts ==
    /\ isAnalysisEnabled
    /\ ttsEnabled' = ~ttsEnabled
    /\ lastEvent' = OtherEvent
    /\ UNCHANGED <<navVars, imageVars, visionVars, ocrVars, voicesLoaded>>
    /\ SetNarr(SpeakEffect(DisableEffect(
           IF ttsEnabled' THEN [Narr EXCEPT !.queue = Append(@, UnlockUtterance)] ELSE Narr,
           ttsEnabled' /\ isAnalysisEnabled')))

\* the engine starts the head utterance: its onstart handler runs
UtteranceStart ==
    /\ synthQueue # <<>>
    /\ ~synthStarted
    /\ synthStarted' = TRUE
    /\ activeBubbleIndex' = IF Head(synthQueue).kind = "unlock" THEN activeBubbleIndex
                            ELSE Head(synthQueue).index
    /\ lastEvent' = OtherEvent
    /\ UNCHANGED <<navVars, imageVars, visionVars, ocrVars, ttsEnabled, synthQueue,
                   lastSpokenPageIndexRef, voicesLoaded, voiceWaiters>>

\* the engine finishes the head utterance: its onend handler runs
UtteranceEnd ==
    /\ synthQueue # <<>>
    /\ synthStarted
    /\ synthQueue' = Tail(synthQueue)
    /\ synthStarted' = FALSE
    /\ activeBubbleIndex' = IF Head(synthQueue).kind # "unlock" /\ Head(synthQueue).last
                            THEN NoBubble ELSE activeBubbleIndex
    /\ lastEvent' = OtherEvent
    /\ UNCHANGED <<navVars, imageVars, visionVars, ocrVars, ttsEnabled,
                   lastSpokenPageIndexRef, voicesLoaded, voiceWaiters>>

\* the engine fails the head utterance: its onerror handler runs
UtteranceError ==
    /\ synthQueue # <<>>
    /\ synthQueue' = Tail(synthQueue)
    /\ synthStarted' = FALSE
    /\ activeBubbleIndex' = IF Head(synthQueue).kind = "bubble" /\ Head(synthQueue).last
                            THEN NoBubble ELSE activeBubbleIndex
    /\ debugError' = IF Head(synthQueue).kind = "text" THEN "TTS Error" ELSE debugError
    /\ lastEvent' = OtherEvent
    /\ UNCHANGED <<navVars, imageVars, visionVars, ocrTextCache, pendingOCRBatches, ocrCalls, ocrIssued,
                   ttsEnabled, lastSpokenPageIndexRef, voicesLoaded, voiceWaiters>>

RECURSIVE Flatten(_)
Flatten(seqs) == IF seqs = <<>> THEN <<>> ELSE Head(seqs) \o Flatten(Tail(seqs))

\* voiceschanged fires: every suspended speakCurrentPage resumes, in the
\* order of registration, and speaks its utterances
VoicesChanged ==
    /\ ~voicesLoaded
    /\ voicesLoaded' = TRUE
    /\ Len(synthQueue \o Flatten(voiceWaiters)) <= MaxQueue
    /\ synthQueue' = synthQueue \o Flatten(voiceWaiters)
    /\ voiceWaiters' = <<>>
    /\ lastEvent' = OtherEvent
    /\ UNCHANGED <<navVars, imageVars, visionVars, ocrVars, ttsEnabled, synthStarted,
                   lastSpokenPageIndexRef, activeBubbleIndex>>

\* a wait for the voices that only the voice list ends
VoiceWaitTimeout_NeedsVoices ==
    /\ voicesLoaded
    /\ voiceWaiters # <<>>
    /\ Len(synthQueue \o Head(voiceWaiters)) <= MaxQueue
    /\ synthQueue' = synthQueue \o Head(voiceWaiters)
    /\ voiceWaiters' = Tail(voiceWaiters)
    /\ lastEvent' = OtherEvent
    /\ UNCHANGED <<navVars, imageVars, visionVars, ocrVars, ttsEnabled, synthStarted,
                   lastSpokenPageIndexRef, activeBubbleIndex, voicesLoaded>>

\* the 1000 ms timeout of the oldest suspended speakCurrentPage fires
VoiceWaitTimeout ==
    /\ voiceWaiters # <<>>
    /\ Len(synthQueue \o Head(voiceWaiters)) <= MaxQueue
    /\ synthQueue' = synthQueue \o Head(voiceWaiters)
    /\ voiceWaiters' = Tail(voiceWaiters)
    /\ lastEvent' = OtherEvent
    /\ UNCHANGED <<navVars, imageVars, visionVars, ocrVars, ttsEnabled, synthStarted,
                   lastSpokenPageIndexRef, activeBubbleIndex, voicesLoaded>>

\* ---------------------------------------------------------- specifications
\* the whole reader
Next ==
    \/ NavigateAny
    \/ TimerFires
    \/ PreloadImageEvent
    \/ LookaheadImageEvent
    \/ AnalyzeClick
    \/ ImagesFetchedEvent
    \/ ImagesFetchFailedEvent
    \/ VisionResponseEvent
    \/ RequestOCRClick
    \/ OcrResponseEvent
    \/ DismissError
    \/ ToggleTts
    \/ UtteranceStart
    \/ UtteranceEnd
    \/ UtteranceError
    \/ VoicesChanged
    \/ VoiceWaitTimeout

Spec == Init /\ [][Next]_vars

\* The image preloader and the vision scheduler.  The handlers left out
\* (OCR, narration) write none of navVars, imageVars and visionVars, and the
\* handlers kept read nothing else, so every run of the reader projects onto
\* a run of this specification.
NextVision ==
    \/ NavigateAny
    \/ TimerFires
    \/ PreloadImageEvent
    \/ LookaheadImageEvent
    \/ AnalyzeClick
    \/ ImagesFetchedEvent
    \/ ImagesFetchFailedEvent
    \/ VisionResponseEvent

InitVision == Init /\ voicesLoaded = TRUE

SpecVision == InitVision /\ [][NextVision]_vars

\* The OCR scheduler: navigation, the OCR button, the answers, the dismiss
\* button.  The OCR handlers read only currentIndex, ocrTextCache and
\* pendingOCRBatches, which no handler left out writes.  The speech engine
\* is left out, so the unlock utterances stay queued and MaxQueue bounds
\* the number of clicks of a run.
NextOCR ==
    \/ NavigateAny
    \/ RequestOCRClick
    \/ OcrResponseEvent
    \/ DismissError

InitOCR == Init /\ voicesLoaded = TRUE /\ brokenImages = {}

SpecOCR == InitOCR /\ [][NextOCR]_vars

\* the pages that are visited where narration is explored
NarrationPages == 0..MaxNarrationPage

\* The narration controller with the handlers that fill the two caches.  The
\* session that is explored analyses one batch and requests OCR once; the
\* delayed preload, the lookahead images and the failure of an image fetch
\* are left out.
NextNarration ==
    \/ (\E j \in NarrationPages : Navigate(j))
    \/ PreloadImageEvent
    \/ (AnalyzeClick /\ ~isAnalysisEnabled)
    \/ ImagesFetchedEvent
    \/ VisionResponseEvent
    \/ (RequestOCRClick /\ ocrIssued = 0)
    \/ OcrResponseEvent
    \/ ToggleTts
    \/ UtteranceStart
    \/ UtteranceEnd
    \/ UtteranceError
    \/ VoicesChanged
    \/ VoiceWaitTimeout

InitNarration == Init /\ brokenImages = {}

SpecNarration == InitNarration /\ [][NextNarration]_vars

\* the ways a remote call settles where only the in-flight sets matter
SettleKinds == {"throw", "notext"}

\* The two schedulers side by side: the preloads, the analyze button and the
\* OCR button with every way their requests end (success path, catch path,
\* early return).  Navigation stays on the first pages, the remote answers
\* carry no content, and the delayed preload, the lookahead images and the
\* speech engine are left out: none of them writes an in-flight set.
NextInFlight ==
    \/ (\E j \in NarrationPages : Navigate(j))
    \/ PreloadImageEvent
    \/ AnalyzeClick
    \/ ImagesFetchedEvent
    \/ ImagesFetchFailedEvent
    \/ (\E b \in Batches : \E resp \in VisionResponses(Cardinality(BatchRange(b))) :
            resp.kind \in SettleKinds /\ VisionResponse(b, resp))
    \/ RequestOCRClick
    \/ (\E s \in Pages : \E resp \in OcrResponses(OcrUrls(s)) :
            resp.kind \in SettleKinds /\ OcrResponse(s, resp))

InitInFlight == Init /\ voicesLoaded = TRUE /\ brokenImages = {}

SpecInFlight == InitInFlight /\ [][NextInFlight]_vars

\* the answers that are arrays with a text for each of the n pages
FullArrayResponses(n) ==
    {resp \in OcrResponses(n) : resp.kind = "array" /\ Len(resp.parsed) >= n}

\* The OCR scheduler where every answer is a JSON array with a text for each
\* requested page: navigation, the OCR button and the answers.  No error is
\* raised, so the error slot stays empty and the dismiss button is never
\* shown.
NextStore ==
    \/ NavigateAny
    \/ RequestOCRClick
    \/ (\E s \in Pages : \E resp \in FullArrayResponses(OcrUrls(s)) : OcrResponse(s, resp))

InitStore == Init /\ voicesLoaded = TRUE /\ brokenImages = {}

SpecStore == InitStore /\ [][NextStore]_vars

\* ------------------------------------------------------------------ claims
\* C1: for every start page s at most one remote OCR call is outstanding,
\* however often requestOCRForPage(s) is invoked while a request for s
\* awaits its response.
C1_OneOcrCallPerStart ==
    \A s \in Pages : ocrCalls[s] <= 1

\* C2: while an analyzeBatch(b) is in flight at most one invocation of it is
\* suspended (so at most one remote call for b is outstanding) and the key b
\* is in processingQueue.
C2_VisionDedup ==
    \A b \in Batches :
        /\ analyzeFetching[b] + analyzeRemote[b] <= 1
        /\ analyzeFetching[b] + analyzeRemote[b] = 1 => b \in processingQueue

\* C2 witness: the analyze button was clicked for a batch whose request is
\* outstanding, and the click was skipped.
C2_Witness ==
    /\ lastEvent = Event("analyzeBatch", BatchOf(currentIndex), "skipped")
    /\ analyzeRemote[BatchOf(currentIndex)] = 1

\* every page of the OCR range of s has a text stored, empty or not
C3_AllStored(cache, s) == \A i \in OcrRange(s) : cache[i] # NoText

\* a step in which the OCR button was clicked
C3_OcrClicked == lastEvent'.op = "requestOCRForPage"
              /\ lastEvent'.outcome \in {"cached", "pending", "nopages", "requested"}

\* C3: once every page of the range of s has a stored text (the empty string
\* included), requestOCRForPage(s) issues no remote call and leaves the text
\* cache and the OCR in-flight set unchanged.
C3_CachedRequestIsNoOp ==
    [][(C3_OcrClicked /\ C3_AllStored(ocrTextCache, lastEvent'.key))
        => /\ ocrCalls' = ocrCalls
           /\ ocrTextCache' = ocrTextCache
           /\ pendingOCRBatches' = pendingOCRBatches]_vars

\* the state that speakCurrentPage closes over
C4_SpeakDeps == <<currentIndex, ttsEnabled, isAnalysisEnabled, analysisCache, ocrTextCache>>

\* the narration utterances of page p that are queued or wait for the voices
RECURSIVE C4_CountFor(_, _)
C4_CountFor(q, p) ==
    IF q = <<>> THEN 0
    ELSE (IF Head(q).kind # "unlock" /\ Head(q).page = p THEN 1 ELSE 0) + C4_CountFor(Tail(q), p)
C4_SpokenFor(q, w, p) == C4_CountFor(q, p) + C4_CountFor(Flatten(w), p)

\* C4: when narration runs for a page whose stored text is the empty string,
\* it queues no utterance for the page, bubbles or not.
C4_EmptyTextIsSilent ==
    [][(/\ C4_SpeakDeps' # C4_SpeakDeps
        /\ ttsEnabled' /\ isAnalysisEnabled'
        /\ ocrTextCache'[currentIndex'] = "")
        => C4_SpokenFor(synthQueue', voiceWaiters', currentIndex')
             <= C4_SpokenFor(synthQueue, voiceWaiters, currentIndex')]_vars

\* C5: when the remote call of a vision batch has completed, every page of
\* the range of the batch is complete or error.
C5_NoPageLeftLoading ==
    [][\A b \in Batches :
         analyzeRemote'[b] < analyzeRemote[b]
         => \A p \in BatchRange(b) : analysisCache'[p].status \in {"complete", "error"}]_vars

\* C6: a page that is complete is complete in every later state.
C6_CompleteIsTerminal ==
    [][\A k \in Keys :
         analysisCache[k].status = "complete" => analysisCache'[k].status = "complete"]_vars

\* a step that runs a marking pass: preloadBatch or analyzeBatch adds its key
C7_MarkingPass == processingQueue' \ processingQueue # {}

\* C7: the marking passes of preloadBatch and analyzeBatch leave the entry
\* (status and bubbles) of every complete page unchanged.
C7_MarkingKeepsComplete ==
    [][C7_MarkingPass
        => \A k \in Keys :
             analysisCache[k].status = "complete" => analysisCache'[k] = analysisCache[k]]_vars

\* C7 witness: analyzeBatch has marked batch 0 while one of its pages was
\* complete with bubbles, and preloadBatch has marked the last batch while
\* one of its pages was complete.
C7_Witness ==
    /\ analyzeFetching[0] = 1
    /\ \E p, q \in BatchRange(0) :
         /\ analysisCache[p].status = "complete" /\ analysisCache[p].bubbles # <<>>
         /\ analysisCache[q].status = "loading"
    /\ \E b \in Batches :
         /\ preloadPending[b] # {}
         /\ \E p \in BatchRange(b) : analysisCache[p].status = "complete"

\* the batch whose handler ran in the step: a marking pass or a completion
C8_BatchActed(b) ==
    \/ b \in processingQueue' \ processingQueue
    \/ analyzeFetching'[b] + analyzeRemote'[b] < analyzeFetching[b] + analyzeRemote[b]

\* C8: every key whose entry is written lies in 0..N-1 and in the range of
\* the batch (vision) or of the request (OCR) that writes it.
C8_WritesStayInRange ==
    [][\A k \in Keys :
         /\ analysisCache'[k] # analysisCache[k]
            => k \in Pages /\ \E b \in Batches : C8_BatchActed(b) /\ k \in BatchRange(b)
         /\ ocrTextCache'[k] # ocrTextCache[k]
            => k \in Pages /\ \E s \in Pages : ocrCalls'[s] < ocrCalls[s] /\ k \in OcrRange(s)]_vars

\* C9: when the remote bubble-detection call of a batch fails, every page of
\* the range of the batch ends with status error.
C9_RemoteFailureMarksError ==
    [][lastEvent'.outcome = "remoteFailed"
        => \A p \in BatchRange(lastEvent'.key) : analysisCache'[p].status = "error"]_vars

\* the status changes of section 4.2
C10_AllowedChanges ==
    { <<"absent", "preloaded">>, <<"preloaded", "loading">>, <<"loading", "complete">>,
      <<"loading", "error">>, <<"error", "loading">> }

\* C10: every status change of a page is one of the allowed changes.
C10_OnlyAllowedChanges ==
    [][\A k \in Keys :
         analysisCache'[k].status # analysisCache[k].status
         => <<analysisCache[k].status, analysisCache'[k].status>> \in C10_AllowedChanges]_vars

\* C11: a key is in an in-flight set only while a request for it is
\* outstanding: every key of processingQueue has a preload or an analysis in
\* flight and every key of pendingOCRBatches has an OCR call in flight, so
\* with nothing outstanding both sets are empty.
C11_NoLeftoverKey ==
    /\ \A b \in processingQueue :
         preloadPending[b] # {} \/ analyzeFetching[b] + analyzeRemote[b] > 0
    /\ \A s \in pendingOCRBatches : ocrCalls[s] > 0

\* C11 witness: an OCR call has thrown, an analysis has ended in its catch
\* path, the preload of the first batch has finished, and both sets are empty.
C11_Witness ==
    /\ lastEvent = Event("performBatchedOCR", currentIndex, "throw")
    /\ \E p \in Pages : analysisCache[p].status = "error"
    /\ preloadedImages # {}
    /\ processingQueue = {}
    /\ pendingOCRBatches = {}

\* C12: two remote requests of one domain that are in flight together cover
\* disjoint page ranges: at most one vision request per batch, and the ranges
\* of OCR requests with different start pages do not meet.
C12_DisjointRanges ==
    /\ \A b \in Batches : analyzeFetching[b] + analyzeRemote[b] <= 1
    /\ \A s1, s2 \in Pages :
         (s1 # s2 /\ ocrCalls[s1] > 0 /\ ocrCalls[s2] > 0)
         => OcrRange(s1) \cap OcrRange(s2) = {}

\* C13: when the current page changes, the speech of the page that was
\* current is cancelled: after the step no utterance of that page is queued
\* in the engine or held by a speakCurrentPage that waits for the voices.
C13_NavigationCancels ==
    [][currentIndex' # currentIndex
        => C4_SpokenFor(synthQueue', voiceWaiters', currentIndex) = 0]_vars

\* C14: while narration is disabled (the narration switch or analysis mode is
\* off) no narration utterance is in the engine's queue and no bubble is
\* marked active, whatever speakCurrentPage invocations were suspended when
\* narration was disabled.
C14_DisabledIsSilent ==
    ~(ttsEnabled /\ isAnalysisEnabled)
    => /\ \A i \in 1..Len(synthQueue) : synthQueue[i].kind = "unlock"
       /\ activeBubbleIndex = NoBubble

\* the utterance sets of page p that are queued or wait for the voices: every
\* set ends with exactly one utterance marked last
C15_SetsFor(p) ==
    Cardinality({i \in 1..Len(synthQueue \o Flatten(voiceWaiters)) :
        LET u == (synthQueue \o Flatten(voiceWaiters))[i]
        IN  u.kind # "unlock" /\ u.page = p /\ u.last})

\* C15: narration of a page is not queued a second time while it is in
\* progress: at most one set of utterances of a page is queued or waits for
\* the voice list.
C15_NoSecondSet ==
    \A p \in Pages : C15_SetsFor(p) <= 1

\* a step in which performBatchedOCR settled on an answer that is no JSON
\* array: text that does not parse, or JSON of another type
C16_Unparseable ==
    lastEvent'.op = "performBatchedOCR" /\ lastEvent'.outcome \in {"invalid", "nonarray"}

\* C16: when the OCR answer cannot be parsed into a JSON array, the error
\* slot gets a message and the text cache is left unchanged.
C16_ParseFailureSurfaced ==
    [][C16_Unparseable => debugError' # "null" /\ ocrTextCache' = ocrTextCache]_vars

\* a step in which analyzeBatch(b) ended in its catch path: the invocation
\* left the image fetch without going on to the remote call
C17_VisionCaught(b) ==
    analyzeFetching'[b] < analyzeFetching[b] /\ analyzeRemote'[b] = analyzeRemote[b]

\* C17: every caught error is written to the error slot: after the catch
\* path of analyzeBatch and after a failed OCR request the slot holds a
\* message.
C17_CaughtErrorsShown ==
    [][((\E b \in Batches : C17_VisionCaught(b))
        \/ (lastEvent'.op = "performBatchedOCR"
            /\ lastEvent'.outcome \in {"mergeFailed", "throw", "invalid"}))
        => debugError' # "null"]_vars

\* a step of the background machinery: a page change, the delayed preload,
\* or an image of preloadBatch or of the lookahead that settles
C18_BackgroundStep ==
    \/ currentIndex' # currentIndex
    \/ timer' # timer
    \/ preloadPending' # preloadPending
    \/ lookaheadPending' # lookaheadPending
    \/ preloadedImages' # preloadedImages

\* C18: navigation, preloadBatch, the delayed preload and the lookahead start
\* no remote call, and a vision call is in flight only after the analyze
\* button has been used.
C18_RemoteOnlyOnUserAction ==
    [][/\ C18_BackgroundStep
          => UNCHANGED <<analyzeFetching, analyzeRemote, ocrCalls, ocrIssued>>
       /\ (\E b \in Batches : analyzeFetching'[b] + analyzeRemote'[b] > 0)
          => isAnalysisEnabled']_vars

\* C18 witness: the reader has turned a page, the delayed preload has fired
\* and loaded the last page, no button was used and no call is in flight.
C18_Witness ==
    /\ currentIndex = 1
    /\ timer = NoTimer
    /\ (NumPages - 1) \in preloadedImages
    /\ preloadPending = [b \in Batches |-> {}]
    /\ ~isAnalysisEnabled
    /\ \A b \in Batches : analyzeFetching[b] + analyzeRemote[b] = 0
    /\ \A s \in Pages : ocrCalls[s] = 0

\* C19: when the OCR request that started at page s settles on an array t
\* with a text for each of its k pages, the text cache afterwards maps s+i to
\* t[i] for i in 0..k-1, an empty string included, and every other entry is
\* unchanged.
C19_TextsStoredByIndex ==
    [][(lastEvent'.op = "performBatchedOCR" /\ lastEvent'.outcome = "array")
        => LET s == lastEvent'.key IN
           \A resp \in FullArrayResponses(OcrUrls(s)) :
             \/ \A key \in Keys :
                  ocrTextCache'[key] = IF key \in OcrRange(s) THEN resp.parsed[key - s + 1]
                                       ELSE ocrTextCache[key]
             \/ ~OcrResponse(s, resp)]_vars

\* C19 witness: the request of the current page has settled on an array, and
\* the cache holds a text for the page and an empty string for the next one.
C19_Witness ==
    /\ lastEvent = Event("performBatchedOCR", currentIndex, "array")
    /\ currentIndex + 1 \in OcrRange(currentIndex)
    /\ ocrTextCache[currentIndex] = "Hello"
    /\ ocrTextCache[currentIndex + 1] = ""

\* what the priority order asks speakCurrentPage to queue for a page, with
\* "non-empty" read literally
C20_ExpectedLiteral(page, text, entry) ==
    IF text # NoText /\ text # "" THEN TextUtterances(page, text)
    ELSE IF entry.status = "complete" /\ entry.bubbles # <<>>
         THEN BubbleUtterances(page, entry.bubbles)
    ELSE <<>>

\* the same with "non-empty" read as: holds more than white space
C20_ExpectedTrimmed(page, text, entry) ==
    IF text # NoText /\ Trim(text) # "" THEN TextUtterances(page, text)
    ELSE IF entry.status = "complete" /\ entry.bubbles # <<>>
         THEN BubbleUtterances(page, entry.bubbles)
    ELSE <<>>

\* the narration utterances of a queue
C20_Narration(q) == SelectSeq(q, LAMBDA u : u.kind # "unlock")

\* a step that runs speakCurrentPage with narration and analysis enabled and
\* is not held back because the page is already being spoken queues exp, at
\* once or through its wait for the voices
C20_Queues(Expected(_, _, _)) ==
    (/\ C4_SpeakDeps' # C4_SpeakDeps
     /\ ttsEnabled' /\ isAnalysisEnabled'
     /\ ~(lastSpokenPageIndexRef = currentIndex' /\ Speaking(Narr)))
    => LET exp == Expected(currentIndex', ocrTextCache'[currentIndex'],
                           analysisCache'[currentIndex'])
       IN  IF exp = <<>>
           THEN /\ C20_Narration(synthQueue') = C20_Narration(synthQueue)
                /\ voiceWaiters' = voiceWaiters
           ELSE IF voicesLoaded
           THEN C20_Narration(synthQueue') = exp /\ voiceWaiters' = voiceWaiters
           ELSE /\ Len(voiceWaiters') > Len(voiceWaiters)
                /\ \A i \in (Len(voiceWaiters) + 1)..Len(voiceWaiters') :
                     voiceWaiters'[i] = exp

\* C20 as stated: with narration and analysis enabled, speakCurrentPage
\* queues the one utterance of the cached text when that text is a non-empty
\* string, else the bubble utterances in stored order when the page is
\* complete with bubbles, else nothing.
C20_PriorityLiteral ==
    [][C20_Queues(C20_ExpectedLiteral)]_vars

\* C20 amended: the same priority order, where the cached text counts when
\* it holds more than white space.
C20_NarrationPriority ==
    [][C20_Queues(C20_ExpectedTrimmed)]_vars

\* C20 witness: the current page is complete with bubbles and has a cached
\* text, and the one utterance that is queued is the text.
C20_Witness ==
    /\ ttsEnabled /\ isAnalysisEnabled
    /\ analysisCache[currentIndex].status = "complete"
    /\ analysisCache[currentIndex].bubbles # <<>>
    /\ ocrTextCache[currentIndex] = "Hello"
    /\ C20_Narration(synthQueue) = TextUtterances(currentIndex, "Hello")

\* ------------------------------------------------- the order of the bubbles
\* the third box of the ordering example, and three boxes of one column whose
\* rows are 40 apart
BubbleC == Bubble("c", 500, 50)
BubbleTop == Bubble("t", 0, 200)
BubbleMid == Bubble("m", 40, 200)
BubbleLow == Bubble("l", 80, 200)

\* the bubble lists of at most MaxBubbles boxes over a set of boxes
MaxBubbles == 3
ListsOver(boxes) == UNION {[1..len -> boxes] : len \in 0..MaxBubbles}

\* the lists a page's result can hold: the boxes of the example in every
\* order, and the boxes of one column in every order
BubbleLists == ListsOver({BubbleA, BubbleB, BubbleC}) \cup ListsOver({BubbleTop, BubbleMid, BubbleLow})

\* the backend answers a batch with the bubbles of its first page
SortedResponseEvent ==
    \E b \in Batches : \E list \in BubbleLists :
        VisionResponse(b, [kind |-> "array",
                           parsed |-> <<[isNull |-> FALSE, bubbles |-> list]>>])

NextSort ==
    \/ PreloadImageEvent
    \/ AnalyzeClick
    \/ ImagesFetchedEvent
    \/ SortedResponseEvent

InitSort == Init /\ voicesLoaded = TRUE

SpecSort == InitSort /\ [][NextSort]_vars

\* C21: in every complete entry, of two bubbles whose ymin differ by more
\* than 50 the one with the smaller ymin is stored first, and of two bubbles
\* within the 50-unit band the one with the larger xmin is stored first
C21_StoredOrder ==
    \A k \in Keys :
        analysisCache[k].status = "complete" =>
            LET bs == analysisCache[k].bubbles IN
            \A i, j \in 1..Len(bs) :
                i < j =>
                    LET yi == bs[i].box_2d[1]
                        yj == bs[j].box_2d[1] IN
                    IF Abs(yi - yj) > 50 THEN yi < yj
                    ELSE bs[i].box_2d[2] >= bs[j].box_2d[2]

\* C22: the vision and the OCR domain use independent in-flight sets: an
\* analysis is skipped only for a key of processingQueue, an OCR request only
\* for a key of pendingOCRBatches, and a step of one domain (a request that
\* starts or completes) leaves the set of the other domain as it is
C22_IndependentSets ==
    [][/\ (lastEvent'.op = "analyzeBatch" /\ lastEvent'.outcome = "skipped")
              => lastEvent'.key \in processingQueue
       /\ (lastEvent'.op = "requestOCRForPage" /\ lastEvent'.outcome = "pending")
              => lastEvent'.key \in pendingOCRBatches
       /\ (analyzeFetching' # analyzeFetching \/ analyzeRemote' # analyzeRemote
              \/ preloadPending' # preloadPending)
              => pendingOCRBatches' = pendingOCRBatches
       /\ ocrCalls' # ocrCalls => processingQueue' = processingQueue]_vars

\* an OCR request with key 0 has just completed while the analysis of batch 0
\* is still in flight under the same key
C22_Witness ==
    /\ lastEvent = Event("performBatchedOCR", 0, "throw")
    /\ analyzeRemote[0] > 0
    /\ 0 \in processingQueue
    /\ 0 \notin pendingOCRBatches

\* ------------------------------------------- the text of the OCR response
\* A response text is a sequence of characters.
Backtick == "backtick"
Quote == "quote"
Newline == "newline"
Whitespace == {" ", Newline}
Fence == <<Backtick, Backtick, Backtick>>
FenceJson == Fence \o <<"j", "s", "o", "n">>
FenceJSON == Fence \o <<"J", "S", "O", "N">>

\* the character as the i flag of a regular expression compares it
Fold(c) ==
    CASE c = "J" -> "j" [] c = "S" -> "s" [] c = "O" -> "o" [] c = "N" -> "n" [] OTHER -> c

\* the pattern matches at the head of the text
MatchesAtHead(text, pat, ignoreCase) ==
    /\ Len(text) >= Len(pat)
    /\ \A i \in 1..Len(pat) : (IF ignoreCase THEN Fold(text[i]) ELSE text[i]) = pat[i]

\* text.replace(/pat/g, empty): every match from left to right is removed
RECURSIVE RemoveAll(_, _, _)
RemoveAll(text, pat, ignoreCase) ==
    IF text = <<>> THEN <<>>
    ELSE IF MatchesAtHead(text, pat, ignoreCase)
         THEN RemoveAll(SubSeq(text, Len(pat) + 1, Len(text)), pat, ignoreCase)
         ELSE <<Head(text)>> \o RemoveAll(Tail(text), pat, ignoreCase)

\* String.prototype.trim
RECURSIVE TrimStart(_)
TrimStart(text) ==
    IF text # <<>> /\ Head(text) \in Whitespace THEN TrimStart(Tail(text)) ELSE text
RECURSIVE TrimEnd(_)
TrimEnd(text) ==
    IF text # <<>> /\ text[Len(text)] \in Whitespace
    THEN TrimEnd(SubSeq(text, 1, Len(text) - 1)) ELSE text
TrimText(text) == TrimEnd(TrimStart(text))

\* the cleaning with the closing fences left in the text
cleanedResponse_OpenerOnly(text) == TrimText(RemoveAll(text, FenceJson, TRUE))

\* the cleaning of the response text: the fence openers, then the fences,
\* are removed and the rest is trimmed
cleanedResponse(text) ==
    TrimText(RemoveAll(RemoveAll(text, FenceJson, TRUE), Fence, FALSE))

\* JSON.parse of an array of strings; any other text is a syntax error
ParseFailure == [ok |-> FALSE, value |-> <<>>]
RECURSIVE SkipSpace(_, _)
SkipSpace(text, i) ==
    IF i <= Len(text) /\ text[i] \in Whitespace THEN SkipSpace(text, i + 1) ELSE i
RECURSIVE ClosingQuote(_, _)
ClosingQuote(text, i) ==
    IF i > Len(text) THEN 0
    ELSE IF text[i] = Quote THEN i ELSE ClosingQuote(text, i + 1)
RECURSIVE ParseElements(_, _, _)
ParseElements(text, i, acc) ==
    LET a == SkipSpace(text, i) IN
    IF a > Len(text) \/ text[a] # Quote THEN ParseFailure
    ELSE LET q == ClosingQuote(text, a + 1) IN
         IF q = 0 THEN ParseFailure
         ELSE LET elems == Append(acc, SubSeq(text, a + 1, q - 1))
                  c == SkipSpace(text, q + 1) IN
              IF c > Len(text) THEN ParseFailure
              ELSE IF text[c] = "," THEN ParseElements(text, c + 1, elems)
              ELSE IF text[c] = "]" /\ SkipSpace(text, c + 1) > Len(text)
                   THEN [ok |-> TRUE, value |-> elems]
                   ELSE ParseFailure
JSONparse(text) ==
    LET a == SkipSpace(text, 1) IN
    IF a > Len(text) \/ text[a] # "[" THEN ParseFailure
    ELSE LET b == SkipSpace(text, a + 1) IN
         IF b <= Len(text) /\ text[b] = "]"
         THEN (IF SkipSpace(text, b + 1) > Len(text)
               THEN [ok |-> TRUE, value |-> <<>>] ELSE ParseFailure)
         ELSE ParseElements(text, a + 1, <<>>)

\* the string a parsed element is, for the elements that are explored
TextOf(chars) ==
    CASE chars = <<>> -> ""
      [] chars = <<"H", "i">> -> "Hi"
      [] chars = <<Backtick>> -> "backtick"
      [] chars = Fence -> "fence"
      [] chars = Fence \o <<Backtick>> -> "fence backtick"

\* what performBatchedOCR makes of response.text
ResponseOf(text) ==
    IF text = <<>> THEN [kind |-> "notext", parsed |-> <<>>]
    ELSE LET p == JSONparse(cleanedResponse(text)) IN
         IF p.ok THEN [kind |-> "array", parsed |-> [i \in 1..Len(p.value) |-> TextOf(p.value[i])]]
         ELSE [kind |-> "invalid", parsed |-> <<>>]

\* JSON.stringify of an array of strings without characters to escape
RECURSIVE Render(_)
Render(A) ==
    IF A = <<>> THEN <<"[", "]">>
    ELSE IF Len(A) = 1 THEN <<"[", Quote>> \o A[1] \o <<Quote, "]">>
    ELSE <<"[", Quote>> \o A[1] \o <<Quote, ",">> \o Tail(Render(Tail(A)))

\* the array wrapped in markdown code fences
FenceOpeners == {FenceJson, FenceJSON}
Fenced(opener, text) == opener \o <<Newline>> \o text \o <<Newline>> \o Fence

\* the arrays of strings that are explored: up to one string per page, of
\* plain text, of nothing, and of back-ticks
FenceStrings == {<<>>, <<"H", "i">>, Fence, Fence \o <<Backtick>>}
JsonArrays(n) == UNION {[1..len -> FenceStrings] : len \in 0..n}

\* the text between the fences of a fenced text
C23_Unfenced(text) == SubSeq(text, Len(FenceJson) + 2, Len(text) - Len(Fence) - 1)
C23_IsFenced(text) == \E opener \in FenceOpeners : text = Fenced(opener, C23_Unfenced(text))

\* the backend answers the request that started at page s with this text;
\* the step is recorded with the text
OcrTextResponse(s, text) == OcrSettles(s, ResponseOf(text), text)

BareResponseEvent ==
    \E s \in Pages : \E A \in JsonArrays(OcrUrls(s)) : OcrTextResponse(s, Render(A))
FencedResponseEvent ==
    \E s \in Pages : \E A \in JsonArrays(OcrUrls(s)) : \E opener \in FenceOpeners :
        OcrTextResponse(s, Fenced(opener, Render(A)))

\* The OCR button on the page that is shown first, and the answers as texts.
NextFence ==
    \/ RequestOCRClick
    \/ BareResponseEvent
    \/ FencedResponseEvent

InitFence == Init /\ voicesLoaded = TRUE /\ brokenImages = {}

SpecFence == InitFence /\ [][NextFence]_vars

\* C23: when the response text is a JSON array of strings wrapped in markdown
\* code fences, the texts of the pages are the ones performBatchedOCR returns
\* for the bare array
C23_FencesIgnored ==
    [][(lastEvent'.op = "performBatchedOCR" /\ C23_IsFenced(lastEvent'.outcome)) =>
          \A bare \in {ResponseOf(C23_Unfenced(lastEvent'.outcome))} :
          \A texts \in {performBatchedOCR(OcrUrls(lastEvent'.key), bare)} :
              /\ OcrError(bare) = ""
              /\ debugError' = debugError
              /\ ocrTextCache' = StoreTexts(ocrTextCache, lastEvent'.key, texts)]_vars

\* a fenced answer has stored a text for page 0 and the rest of a string of
\* back-ticks for page 1
C23_Witness ==
    /\ lastEvent.op = "performBatchedOCR"
    /\ lastEvent.key = 0
    /\ lastEvent.outcome = Fenced(FenceJson, Render(<<<<"H", "i">>, Fence \o <<Backtick>>>>))
    /\ ocrTextCache[0] = "Hi"
    /\ ocrTextCache[1] = "backtick"
    /\ debugError = "null"

\* C24: a click on the analyze button is skipped only when a vision analysis
\* of the batch is in flight; an image preload of the batch does not make the
\* click skip
C24_SkippedOnlyForAnalysis ==
    [][\A b \in Batches :
           lastEvent' = Event("analyzeBatch", b, "skipped")
               => analyzeFetching[b] + analyzeRemote[b] > 0]_vars

\* the number of analyses of batch b that are in flight
C26_InFlight(fetching, remote, b) == fetching[b] + remote[b]

\* C26: while an analysis of batch b is in flight, no page of b is rewritten
\* to preloaded, and a step that neither starts nor ends an analysis leaves
\* every page of b as it is
C26_PreloadKeepsAway ==
    [][\A b \in Batches :
           C26_InFlight(analyzeFetching, analyzeRemote, b) > 0 =>
               \A p \in BatchRange(b) :
                   /\ analysisCache'[p].status = "preloaded"
                          => analysisCache[p].status = "preloaded"
                   /\ (\A c \in Batches :
                           C26_InFlight(analyzeFetching', analyzeRemote', c)
                               = C26_InFlight(analyzeFetching, analyzeRemote, c))
                          => analysisCache'[p] = analysisCache[p]]_vars

\* the analysis of the last batch is in flight, its page is marked loading and
\* its image is not loaded, and the delayed preloadBatch of that batch has run
\* after the reader went back to the first batch
C26_Witness ==
    /\ C26_InFlight(analyzeFetching, analyzeRemote, BatchOf(NumPages - 1)) > 0
    /\ analysisCache[NumPages - 1].status = "loading"
    /\ (NumPages - 1) \notin preloadedImages
    /\ BatchOf(currentIndex) = 0
    /\ BatchOf(NumPages - 1) = 1
    /\ timer = NoTimer

\* ------------------------------------------------- the wait for the voices
\* The narration controller of a browser whose voice list stays empty and
\* whose voiceschanged event never fires.  The reader only moves forward, the
\* analysis and the narration are switched on once and OCR is requested once.
NextVoiceWait ==
    \/ (\E j \in NarrationPages : j > currentIndex /\ Navigate(j))
    \/ PreloadImageEvent
    \/ (AnalyzeClick /\ ~isAnalysisEnabled)
    \/ ImagesFetchedEvent
    \/ VisionResponseEvent
    \/ (RequestOCRClick /\ ocrIssued = 0)
    \/ OcrResponseEvent
    \/ (ToggleTts /\ ~ttsEnabled)
    \/ UtteranceStart
    \/ UtteranceEnd
    \/ UtteranceError
    \/ VoiceWaitTimeout

InitVoiceWait == Init /\ brokenImages = {} /\ voicesLoaded = FALSE

\* a timer that is set fires, and the engine works through its queue
FairVoiceWait ==
    /\ WF_vars(VoiceWaitTimeout)
    /\ WF_vars(UtteranceStart)
    /\ WF_vars(UtteranceEnd)

SpecVoiceWait == InitVoiceWait /\ [][NextVoiceWait]_vars /\ FairVoiceWait

\* the utterances a narration attempt of the explored session can wait with
C25_Waits ==
    {TextUtterances(p, "Hello") : p \in NarrationPages}
    \cup {BubbleUtterances(p, SortBubbles(BubbleResult.bubbles)) : p \in NarrationPages}

\* the speech queue ends with these utterances
C25_Queued(w) ==
    /\ Len(synthQueue) >= Len(w)
    /\ SubSeq(synthQueue, Len(synthQueue) - Len(w) + 1, Len(synthQueue)) = w

\* C25: the wait for the voice list is bounded: when the voiceschanged event
\* never fires, the utterances of every narration attempt that waits (each
\* attempt waits once, with the utterances of its page) are eventually queued
C25_WaitIsBounded ==
    /\ [](\A i \in 1..Len(voiceWaiters) : voiceWaiters[i] \in C25_Waits)
    /\ \A w \in C25_Waits :
           (voiceWaiters # <<>> /\ Head(voiceWaiters) = w) ~> C25_Queued(w)

\* the voice list is still empty, no attempt waits any more, and the
\* utterance of page 0 is in the speech queue
C25_Witness ==
    /\ ~voicesLoaded
    /\ voiceWaiters = <<>>
    /\ C25_Queued(TextUtterances(0, "Hello"))

====
